---- MODULE Spec2Model ----
(***************************************************************************)
(* PWD Tools (CRAJKUMARSINGH/26sep): the advanced application              *)
(* (src/Streamlit_app2.py) and the simplified application                  *)
(* (src/streamlit_app.py) as state machines.                               *)
(*                                                                         *)
(* Numbers.  The Python code computes in binary floating point; the model  *)
(* computes in exact decimal fixed point.  Money typed into a form is a    *)
(* whole number of rupees, a percentage rate is a whole number of percent  *)
(* (the delay penalty rate, whose widget steps by 0.01, is a whole number  *)
(* of hundredths of a percent) and every computed amount is a whole number *)
(* of ten-thousandths of a rupee (Scale), which holds all of these         *)
(* products exactly.                                                       *)
(*                                                                         *)
(* Text.  A form field is a string; a spreadsheet cell and a payee name    *)
(* that the code inspects character by character is a sequence of          *)
(* one-character strings.                                                  *)
(***************************************************************************)
EXTENDS Integers, Sequences, FiniteSets, TLC

VARIABLES
    form,          \* widget values of the form on screen, of either application
    emd_refunds,   \* Streamlit_app2: table advanced_emd_refunds
    delays,        \* Streamlit_app2: table advanced_project_delays
    bills,         \* Streamlit_app2: table professional_bills
    out,           \* what the last script run rendered
    open_conns,    \* Streamlit_app2: sqlite3 connections opened and not closed
    runs,          \* number of form submissions so far, in either application
    df,            \* streamlit_app show_excel_emd: the uploaded table, mapped columns
    pc,            \* streamlit_app show_excel_emd: where the script run is
    idx,           \* streamlit_app show_excel_emd: rows the loop has visited
    records,       \* streamlit_app show_excel_emd: receipts generated
    invalid_rows,  \* streamlit_app show_excel_emd: (row number, reason) pairs
    zip,           \* streamlit_app show_excel_emd: file names written to the archive
    fmt_in,        \* the value handed to the currency formatters
    fmt_words,     \* what indian_number_to_words made of fmt_in, once called
    fmt_page,      \* what build_receipt_html made of fmt_in, once called
    pwd_bills,     \* streamlit_app: table bills of pwd_tools.db
    pwd_emd_refunds, \* streamlit_app: table emd_refunds of pwd_tools.db
    pwd_project_delays, \* streamlit_app: table project_delays of pwd_tools.db
    cols,          \* streamlit_app show_excel_emd: column names of the uploaded table
    mapping,       \* streamlit_app show_excel_emd: the defaults of the three selectboxes
    selected_tool, \* streamlit_app main: the tool chosen in the sidebar
    selected_tool_override, \* streamlit_app: st.session_state["selected_tool_override"]
    pages          \* streamlit_app main: the tool each script run routed to, in order

app2vars == <<form, emd_refunds, delays, bills, out, open_conns, runs>>

bulkvars == <<df, pc, idx, records, invalid_rows, zip>>

fmtvars == <<fmt_in, fmt_words, fmt_page>>

mapvars == <<cols, mapping>>

routevars == <<selected_tool, selected_tool_override, pages>>

simplevars == <<pwd_bills, pwd_emd_refunds, pwd_project_delays, mapvars, routevars>>

vars == <<app2vars, bulkvars, fmtvars, simplevars>>

(***************************************************************************)
(* Bounds of the model.                                                    *)
(***************************************************************************)
MaxRuns == 2

MaxBatch == 3

\* script runs of main in a session
MaxRoutes == 4

\* columns of an uploaded table
MaxCols == 3

(***************************************************************************)
(* Fixed-point arithmetic.                                                 *)
(***************************************************************************)
Scale == 100 * 100

\* Percent reading a rate of 0 as "not given" and charging 1 percent
PercentZeroAsDefault(x, r) ==
    IF r = 0 THEN x \div 100 ELSE (x \div 100) * r + ((x % 100) * r) \div 100

\* x * (r / 100) for an amount x and a rate r in percent; exact whenever
\* x * r is a multiple of 100, which holds for whole-rupee inputs.
Percent(x, r) == (x \div 100) * r + ((x % 100) * r) \div 100

Rupees(n) == n * Scale

(***************************************************************************)
(* datetime.date: proleptic Gregorian ordinals, as date.__sub__ uses them. *)
(***************************************************************************)
IsLeap(y) == (y % 4 = 0) /\ ((y % 100 # 0) \/ (y % 400 = 0))

DaysBeforeYear(y) ==
    (y - 1) * 365 + (y - 1) \div 4 - (y - 1) \div 100 + (y - 1) \div 400

DaysInMonth(y, m) ==
    IF m = 2 THEN (IF IsLeap(y) THEN 29 ELSE 28)
    ELSE IF m \in {4, 6, 9, 11} THEN 30 ELSE 31

RECURSIVE DaysBeforeMonth(_, _)
DaysBeforeMonth(y, m) ==
    IF m = 1 THEN 0 ELSE DaysBeforeMonth(y, m - 1) + DaysInMonth(y, m - 1)

ToOrdinal(d) == DaysBeforeYear(d.y) + DaysBeforeMonth(d.y, d.m) + d.d

\* DateDiffDays as the distance between the two dates
DateDiffDaysAbsolute(a, b) ==
    IF ToOrdinal(a) >= ToOrdinal(b) THEN ToOrdinal(a) - ToOrdinal(b)
    ELSE ToOrdinal(b) - ToOrdinal(a)

\* (a - b).days
DateDiffDays(a, b) == ToOrdinal(a) - ToOrdinal(b)

Date(y, m, d) == [y |-> y, m |-> m, d |-> d]

(***************************************************************************)
(* Numbers handed to the currency formatters.  A finite non-negative or    *)
(* negative decimal is its sign, whole part and fraction in units of       *)
(* 1/Scale; the other kinds are the values on which conversion fails.      *)
(***************************************************************************)
Num(w, f) == [kind |-> "num", neg |-> FALSE, whole |-> w, frac |-> f]

NaN == [kind |-> "nan"]

Text(s) == [kind |-> "str", s |-> s]

\* an amount in units of 1/Scale, as a float
FromUnits(u) ==
    IF u >= 0 THEN Num(u \div Scale, u % Scale)
    ELSE [kind |-> "num", neg |-> TRUE, whole |-> (-u) \div Scale, frac |-> (-u) % Scale]

(***************************************************************************)
(* num2words(n, lang='en_IN').title() and num2words(n, lang='en').title()  *)
(* for the integers the formatter passes: the library splits n at its      *)
(* highest card (crore, lakh, thousand, hundred, the tens, 0..19) and      *)
(* merges the parts with " ", "-", " and " and ", "; title() upper-cases   *)
(* the first letter of every word.                                         *)
(***************************************************************************)
LowWords ==
    <<"One", "Two", "Three", "Four", "Five", "Six", "Seven", "Eight", "Nine", "Ten",
      "Eleven", "Twelve", "Thirteen", "Fourteen", "Fifteen", "Sixteen", "Seventeen",
      "Eighteen", "Nineteen">>

TensWords ==
    <<"Ten", "Twenty", "Thirty", "Forty", "Fifty", "Sixty", "Seventy", "Eighty", "Ninety">>

Card(n) ==
    IF n >= 10000000 THEN [value |-> 10000000, name |-> "Crore"]
    ELSE IF n >= 100000 THEN [value |-> 100000, name |-> "Lakh"]
    ELSE IF n >= 1000 THEN [value |-> 1000, name |-> "Thousand"]
    ELSE [value |-> 100, name |-> "Hundred"]

RECURSIVE num2words(_)
num2words(n) ==
    IF n < 0 THEN "Minus " \o num2words(-n)
    ELSE IF n = 0 THEN "Zero"
    ELSE IF n < 20 THEN LowWords[n]
    ELSE IF n < 100 THEN
        IF n % 10 = 0 THEN TensWords[n \div 10]
        ELSE TensWords[n \div 10] \o "-" \o LowWords[n % 10]
    ELSE
        LET c == Card(n)
            head == num2words(n \div c.value) \o " " \o c.name
            mod == n % c.value
        IN  IF mod = 0 THEN head
            ELSE IF mod < 100 THEN head \o " And " \o num2words(mod)
            ELSE head \o ", " \o num2words(mod)

(***************************************************************************)
(* Streamlit_app2.indian_number_to_words.  The result records whether an   *)
(* exception left the function (raised), whether the bare except returned  *)
(* the numeric fallback, the returned text and the two integers that were  *)
(* put into words.                                                         *)
(***************************************************************************)
\* IntOf rounding down, as math.floor does
IntOfFloor(amount) ==
    IF amount.neg
    THEN IF amount.frac > 0 THEN -(amount.whole + 1) ELSE -amount.whole
    ELSE amount.whole

\* int(x) of a float: truncation towards zero
IntOf(amount) == IF amount.neg THEN -amount.whole ELSE amount.whole

\* int((amount - rupees) * 100): the fraction truncated to whole paise (on the
\* exact decimal; the binary float of a two-decimal amount can truncate to one
\* paisa less)
PaiseOf(amount) ==
    IF amount.neg THEN -(amount.frac \div 100) ELSE amount.frac \div 100

\* f"{amount:.2f}" of a float that is not finite
FormatNonFinite(amount) == IF amount.kind = "nan" THEN "nan" ELSE "inf"

indian_number_to_words(amount) ==
    IF amount.kind = "num" THEN
        LET rupees == IntOf(amount)
            paise == PaiseOf(amount)
            rupee_words == IF rupees = 0 THEN "Zero" ELSE num2words(rupees)
        IN  [raised |-> FALSE, fallback |-> FALSE, rupees |-> rupees, paise |-> paise,
             text |-> IF paise > 0
                      THEN rupee_words \o " Rupees and " \o num2words(paise) \o " Paise Only"
                      ELSE rupee_words \o " Rupees Only"]
    ELSE IF amount.kind \in {"nan", "inf"} THEN
        \* int(amount) raises ValueError/OverflowError; the bare except formats it
        [raised |-> FALSE, fallback |-> TRUE, rupees |-> 0, paise |-> 0,
         text |-> FormatNonFinite(amount) \o " Rupees Only"]
    ELSE
        \* a str or None: int() or the subtraction raises, and inside the except
        \* block format code 'f' raises again, which leaves the function
        [raised |-> TRUE, fallback |-> FALSE, rupees |-> 0, paise |-> 0, text |-> ""]

(***************************************************************************)
(* Streamlit_app2: the calculators of the advanced application.  Each      *)
(* handler is the body of "if submitted:" of one st.form, run on the       *)
(* widget values in form.  db_ok tells whether sqlite3 executes the INSERT *)
(* or raises (database locked, disk full): the handlers catch nothing, so  *)
(* the exception ends the script run with the connection still open.       *)
(***************************************************************************)
NoForm == [tool |-> "none"]

NoOutput == [kind |-> "none"]

ErrorMessage(tool) == [kind |-> "error", tool |-> tool]

Traceback(tool) == [kind |-> "exception", tool |-> tool]

EmdForms(Names, Amounts) ==
    [tool : {"emd"}, payee_name : Names, work_description : Names, amount : Amounts]

DelayForms(Names, Dates, Rates, Values) ==
    [tool : {"delay"}, project_name : Names, contractor_name : Names,
     original_date : Dates, actual_date : Dates,
     penalty_rate : Rates, project_value : Values]

BillForms(Names, Claims, Gst, Tds, Retention, Cess, Other) ==
    [tool : {"bill"}, bill_number : Names, contractor_name : Names,
     work_description : Names, current_claim : Claims, previous_payment : {0},
     gst_rate : Gst, tds_rate : Tds, retention_rate : Retention,
     labour_cess : Cess, other_deductions : Other]

\* line 332
EmdFormInvalid(f) == f.payee_name = "" \/ f.work_description = "" \/ f.amount <= 0

\* lines 331-432: validation, INSERT, amount in words, document
show_advanced_emd_refund(db_ok) ==
    /\ form.tool = "emd"
    /\ runs < MaxRuns
    /\ runs' = runs + 1
    /\ IF EmdFormInvalid(form)
       THEN /\ out' = ErrorMessage("emd")
            /\ UNCHANGED <<emd_refunds, open_conns>>
       ELSE IF db_ok
       THEN /\ emd_refunds' = Append(emd_refunds,
                    [payee_name |-> form.payee_name, amount |-> form.amount,
                     work_description |-> form.work_description])
            /\ out' = [kind |-> "emd", amount |-> form.amount,
                       amount_in_words |->
                           indian_number_to_words(Num(form.amount, 0)).text]
            /\ UNCHANGED open_conns
       ELSE /\ out' = Traceback("emd")
            /\ open_conns' = open_conns + 1
            /\ UNCHANGED emd_refunds
    /\ UNCHANGED <<form, delays, bills, bulkvars, fmtvars, simplevars>>

\* DelayPenalty without the branches for an early and an on-time completion
DelayPenaltyUnguarded(project_value, penalty_rate, delay_days) ==
    project_value * penalty_rate * delay_days

\* lines 470-493: delay_days, the message shown and the penalty, the penalty in
\* units of 1/Scale rupee (project_value in rupees, penalty_rate in 1/100 percent)
DelayPenalty(project_value, penalty_rate, delay_days) ==
    IF delay_days < 0 THEN 0
    ELSE IF delay_days = 0 THEN 0
    ELSE project_value * penalty_rate * delay_days

\* DelayMessage with one message for an early and an on-time completion
DelayMessageEarlyIsOnTime(delay_days) ==
    IF delay_days <= 0 THEN [text |-> "on time", days |-> 0]
    ELSE [text |-> "delayed", days |-> delay_days]

\* lines 472-493: the message rendered above the analysis
DelayMessage(delay_days) ==
    IF delay_days < 0 THEN [text |-> "ahead of schedule", days |-> -delay_days]
    ELSE IF delay_days = 0 THEN [text |-> "on time", days |-> 0]
    ELSE [text |-> "delayed", days |-> delay_days]

\* ImpactRating with the two thresholds inclusive
ImpactRatingInclusive(delay_days) ==
    IF delay_days >= 90 THEN "High" ELSE IF delay_days >= 30 THEN "Medium" ELSE "Low"

\* line 524
ImpactRating(delay_days) ==
    IF delay_days > 90 THEN "High" ELSE IF delay_days > 30 THEN "Medium" ELSE "Low"

\* line 463: a date is never falsy, so only the two names decide
DelayFormInvalid(f) == f.project_name = "" \/ f.contractor_name = ""

\* lines 462-583
show_advanced_delay_calculator(db_ok) ==
    /\ form.tool = "delay"
    /\ runs < MaxRuns
    /\ runs' = runs + 1
    /\ IF DelayFormInvalid(form)
       THEN /\ out' = ErrorMessage("delay")
            /\ UNCHANGED <<delays, open_conns>>
       ELSE LET delay_days == DateDiffDays(form.actual_date, form.original_date)
                penalty_amount ==
                    DelayPenalty(form.project_value, form.penalty_rate, delay_days)
            IN  IF db_ok
                THEN /\ delays' = Append(delays,
                             [project_name |-> form.project_name,
                              contractor_name |-> form.contractor_name,
                              original_completion_date |-> form.original_date,
                              actual_completion_date |-> form.actual_date,
                              delay_days |-> delay_days,
                              penalty_amount |-> penalty_amount])
                     /\ out' = [kind |-> "delay", delay_days |-> delay_days,
                                message |-> DelayMessage(delay_days),
                                penalty_amount |-> penalty_amount,
                                \* delay_percentage, as a count of 1/365 percent
                                delay_percentage |->
                                    IF delay_days > 0 THEN delay_days * 100 ELSE 0,
                                impact_rating |-> ImpactRating(delay_days)]
                     /\ UNCHANGED open_conns
                ELSE \* lines 472-493 have rendered the message before the
                     \* INSERT raises
                     /\ out' = [kind |-> "exception", tool |-> "delay",
                                message |-> DelayMessage(delay_days)]
                     /\ open_conns' = open_conns + 1
                     /\ UNCHANGED delays
    /\ UNCHANGED <<form, emd_refunds, bills, bulkvars, fmtvars, simplevars>>

\* BillTdsBase taking TDS on the claim alone, as the deductions table does
BillTdsBaseClaimOnly(current_claim, gst_amount) == current_claim

\* line 621: TDS is taken on the claim with GST
BillTdsBase(current_claim, gst_amount) == current_claim + gst_amount

\* NetAmount floored at zero
NetAmountClamped(gross, total_deductions) ==
    IF total_deductions > gross THEN 0 ELSE gross - total_deductions

\* lines 626 and 756: the subtraction, with no test of its sign
NetAmount(gross, total_deductions) == gross - total_deductions

\* BillCalculation with the net payment taken from the claim without GST
BillCalculationNetOfClaim(f) ==
    LET current_claim == Rupees(f.current_claim)
        gst_amount == Percent(current_claim, f.gst_rate)
        gross_with_gst == current_claim + gst_amount
        tds_amount == Percent(BillTdsBase(current_claim, gst_amount), f.tds_rate)
        retention_amount == Percent(current_claim, f.retention_rate)
        labour_cess_amount == Percent(current_claim, f.labour_cess)
        other_deductions == Rupees(f.other_deductions)
        total_deductions ==
            tds_amount + retention_amount + labour_cess_amount + other_deductions
    IN  [current_claim |-> current_claim, gst_amount |-> gst_amount,
         gross_with_gst |-> gross_with_gst, tds_amount |-> tds_amount,
         retention_amount |-> retention_amount,
         labour_cess_amount |-> labour_cess_amount,
         other_deductions |-> other_deductions,
         total_deductions |-> total_deductions,
         net_payment |-> NetAmount(current_claim, total_deductions)]

\* lines 618-626, every amount in units of 1/Scale rupee
BillCalculation(f) ==
    LET current_claim == Rupees(f.current_claim)
        gst_amount == Percent(current_claim, f.gst_rate)
        gross_with_gst == current_claim + gst_amount
        tds_amount == Percent(BillTdsBase(current_claim, gst_amount), f.tds_rate)
        retention_amount == Percent(current_claim, f.retention_rate)
        labour_cess_amount == Percent(current_claim, f.labour_cess)
        other_deductions == Rupees(f.other_deductions)
        total_deductions ==
            tds_amount + retention_amount + labour_cess_amount + other_deductions
    IN  [current_claim |-> current_claim, gst_amount |-> gst_amount,
         gross_with_gst |-> gross_with_gst, tds_amount |-> tds_amount,
         retention_amount |-> retention_amount,
         labour_cess_amount |-> labour_cess_amount,
         other_deductions |-> other_deductions,
         total_deductions |-> total_deductions,
         net_payment |-> NetAmount(gross_with_gst, total_deductions)]

\* BillFormInvalid without the check of the work description
BillFormInvalidIgnoresWork(f) ==
    f.bill_number = "" \/ f.contractor_name = "" \/ f.current_claim <= 0

\* line 611
BillFormInvalid(f) ==
    \/ f.bill_number = "" \/ f.contractor_name = ""
    \/ f.work_description = "" \/ f.current_claim <= 0

\* lines 610-714
show_professional_bill_sheet(db_ok) ==
    /\ form.tool = "bill"
    /\ runs < MaxRuns
    /\ runs' = runs + 1
    /\ IF BillFormInvalid(form)
       THEN /\ out' = ErrorMessage("bill")
            /\ UNCHANGED <<bills, open_conns>>
       ELSE LET c == BillCalculation(form)
            IN  IF db_ok
                THEN /\ bills' = Append(bills,
                             [bill_number |-> form.bill_number,
                              contractor_name |-> form.contractor_name,
                              work_description |-> form.work_description,
                              bill_amount |-> c.current_claim,
                              previous_payment |-> Rupees(form.previous_payment),
                              current_claim |-> c.current_claim,
                              deductions |-> c.total_deductions,
                              net_payment |-> c.net_payment,
                              gst_amount |-> c.gst_amount,
                              tds_amount |-> c.tds_amount])
                     /\ out' = [kind |-> "bill", sheet |-> c,
                                amount_in_words |->
                                    indian_number_to_words(FromUnits(c.net_payment)).text]
                     /\ UNCHANGED open_conns
                ELSE /\ out' = Traceback("bill")
                     /\ open_conns' = open_conns + 1
                     /\ UNCHANGED bills
    /\ UNCHANGED <<form, emd_refunds, delays, bulkvars, fmtvars, simplevars>>

DeductionForms(Bases, Tds, Gst, Cess, Performance, Retention, Fixed) ==
    [tool : {"deductions"}, base_amount : Bases, tds_rate : Tds, gst_rate : Gst,
     labour_cess_rate : Cess, performance_rate : Performance,
     retention_rate : Retention, security_amount : Fixed,
     mobilization_amount : {0}, material_amount : {0}, penalty_amount : {0},
     other_amount : Fixed]

\* DeductionsCalculation taking TDS on the base with GST, as the bill flow does
DeductionsCalculationTdsOnGross(f) ==
    LET base_amount == Rupees(f.base_amount)
        gst_calc == Percent(base_amount, f.gst_rate)
        tds_calc == Percent(base_amount + gst_calc, f.tds_rate)
        labour_cess_calc == Percent(base_amount, f.labour_cess_rate)
        performance_calc == Percent(base_amount, f.performance_rate)
        retention_calc == Percent(base_amount, f.retention_rate)
        total_deductions ==
            tds_calc + gst_calc + labour_cess_calc + performance_calc
            + retention_calc + Rupees(f.security_amount)
            + Rupees(f.mobilization_amount) + Rupees(f.material_amount)
            + Rupees(f.penalty_amount) + Rupees(f.other_amount)
    IN  [base_amount |-> base_amount, tds_calc |-> tds_calc, gst_calc |-> gst_calc,
         labour_cess_calc |-> labour_cess_calc,
         performance_calc |-> performance_calc, retention_calc |-> retention_calc,
         total_deductions |-> total_deductions,
         net_amount |-> NetAmount(base_amount, total_deductions)]

\* lines 747-756, every amount in units of 1/Scale rupee
DeductionsCalculation(f) ==
    LET base_amount == Rupees(f.base_amount)
        tds_calc == Percent(base_amount, f.tds_rate)
        gst_calc == Percent(base_amount, f.gst_rate)
        labour_cess_calc == Percent(base_amount, f.labour_cess_rate)
        performance_calc == Percent(base_amount, f.performance_rate)
        retention_calc == Percent(base_amount, f.retention_rate)
        total_deductions ==
            tds_calc + gst_calc + labour_cess_calc + performance_calc
            + retention_calc + Rupees(f.security_amount)
            + Rupees(f.mobilization_amount) + Rupees(f.material_amount)
            + Rupees(f.penalty_amount) + Rupees(f.other_amount)
    IN  [base_amount |-> base_amount, tds_calc |-> tds_calc, gst_calc |-> gst_calc,
         labour_cess_calc |-> labour_cess_calc,
         performance_calc |-> performance_calc, retention_calc |-> retention_calc,
         total_deductions |-> total_deductions,
         net_amount |-> NetAmount(base_amount, total_deductions)]

\* lines 745-825: no table is written, and a non-positive base renders nothing
show_advanced_deductions ==
    /\ form.tool = "deductions"
    /\ runs < MaxRuns
    /\ runs' = runs + 1
    /\ out' = IF form.base_amount > 0
              THEN LET c == DeductionsCalculation(form)
                   IN  [kind |-> "deductions", table |-> c,
                        amount_in_words |->
                            indian_number_to_words(FromUnits(c.net_amount)).text]
              ELSE NoOutput
    /\ UNCHANGED <<form, emd_refunds, delays, bills, open_conns, bulkvars, fmtvars, simplevars>>

SecurityForms(Names, Amounts, Claims, Dates, Applicable, Rates) ==
    [tool : {"security"}, contractor_name : Names, work_description : Names,
     security_amount : Amounts, pending_claims : Claims, damage_recovery : {0},
     completion_date : Dates, interest_applicable : Applicable,
     interest_rate : Rates]

\* line 927
SecurityFormInvalid(f) ==
    f.contractor_name = "" \/ f.work_description = "" \/ f.security_amount <= 0

\* lines 934-942, in rupees; interest_amount and final_refund as counts of
\* 1/36500 rupee, the divisor of line 940
SecurityCalculation(f, today) ==
    LET total_deductions == f.pending_claims + f.damage_recovery
        refundable_amount == f.security_amount - total_deductions
        interest_amount ==
            IF f.interest_applicable /\ refundable_amount > 0
            THEN refundable_amount * f.interest_rate
                 * DateDiffDays(today, f.completion_date)
            ELSE 0
    IN  [total_deductions |-> total_deductions,
         refundable_amount |-> refundable_amount,
         interest_amount |-> interest_amount,
         final_refund |-> refundable_amount * (365 * 100) + interest_amount]

\* lines 926-1010: no table is written
show_security_refund_advanced(today) ==
    /\ form.tool = "security"
    /\ runs < MaxRuns
    /\ runs' = runs + 1
    /\ out' = IF SecurityFormInvalid(form)
              THEN ErrorMessage("security")
              ELSE [kind |-> "security", refund |-> SecurityCalculation(form, today)]
    /\ UNCHANGED <<form, emd_refunds, delays, bills, open_conns, bulkvars, fmtvars, simplevars>>

(***************************************************************************)
(* streamlit_app.show_excel_emd: the converter of the generated receipt.   *)
(* convertNumberToWords is the JavaScript of the receipt page, run on the  *)
(* amount the page was generated with.                                     *)
(***************************************************************************)
JsOnes == <<"One", "Two", "Three", "Four", "Five", "Six", "Seven", "Eight", "Nine">>

JsTeens ==
    <<"Ten", "Eleven", "Twelve", "Thirteen", "Fourteen", "Fifteen", "Sixteen",
      "Seventeen", "Eighteen", "Nineteen">>

\* tens[i] for i >= 2; the array has ten entries, so tens[10] is undefined
JsTens(i) ==
    IF i <= 9
    THEN <<"", "Twenty", "Thirty", "Forty", "Fifty", "Sixty", "Seventy", "Eighty",
           "Ninety">>[i]
    ELSE "undefined"

\* lines 406-411 and 417-422: a number 1..100 in words
JsBelowHundred(r) ==
    IF r < 10 THEN JsOnes[r]
    ELSE IF r < 20 THEN JsTeens[r - 10 + 1]
    ELSE JsTens(r \div 10) \o (IF r % 10 > 0 THEN " " \o JsOnes[r % 10] ELSE "")

\* Math.floor(num)
JsFloor(num) ==
    IF ~num.neg THEN num.whole
    ELSE IF num.frac = 0 THEN -num.whole ELSE -num.whole - 1

\* Math.round((num - rupees) * 100): units of Scale/100 to the paisa, half up
JsPaise(num) ==
    LET above == IF num.neg /\ num.frac > 0 THEN Scale - num.frac
                 ELSE IF num.neg THEN 0 ELSE num.frac
    IN  (above + 50) \div 100

RECURSIVE convertNumberToWords(_)
convertNumberToWords(num) ==
    IF num.whole = 0 /\ num.frac = 0 THEN "Zero"
    ELSE
    LET rupees == JsFloor(num)
        paise == JsPaise(num)
        part(n) == convertNumberToWords(Num(n, 0))
        r0 == rupees
        w1 == IF r0 \div 10000000 > 0 THEN part(r0 \div 10000000) \o " Crore " ELSE ""
        r1 == IF r0 \div 10000000 > 0 THEN r0 % 10000000 ELSE r0
        w2 == IF r1 \div 100000 > 0 THEN w1 \o part(r1 \div 100000) \o " Lakh " ELSE w1
        r2 == IF r1 \div 100000 > 0 THEN r1 % 100000 ELSE r1
        w3 == IF r2 \div 1000 > 0 THEN w2 \o part(r2 \div 1000) \o " Thousand " ELSE w2
        r3 == IF r2 \div 1000 > 0 THEN r2 % 1000 ELSE r2
        w4 == IF r3 \div 100 > 0 THEN w3 \o part(r3 \div 100) \o " Hundred " ELSE w3
        r4 == IF r3 \div 100 > 0 THEN r3 % 100 ELSE r3
        w5 == IF r4 > 0
              THEN (IF w4 # "" THEN w4 \o " and " ELSE w4) \o JsBelowHundred(r4)
              ELSE w4
        w6 == IF rupees > 0 THEN w5 \o " Rupees" ELSE ""
        w7 == IF paise > 0
              THEN (IF w6 # "" THEN w6 \o " and " ELSE w6)
                   \o JsBelowHundred(paise) \o " Paise"
              ELSE w6
    IN  IF w7 # "" THEN w7 ELSE "Zero Rupees"

(***************************************************************************)
(* streamlit_app.show_excel_emd: cells, text and file names.  A cell of    *)
(* the uploaded table is NaN (empty), a number or a text; text is a        *)
(* sequence of characters.                                                 *)
(***************************************************************************)
Digit == {"0", "1", "2", "3", "4", "5", "6", "7", "8", "9"}

Whitespace == {" "}

\* the characters the pattern [A-Za-z0-9._-] of sanitize_filename keeps, among
\* the characters of the model's cells
SafeChar ==
    Digit \cup {"R", "a", "m", "o", "d", "n", "b", "c", ".", "_", "-"}

DigitValue(c) == CHOOSE v \in 0..9 : <<"0", "1", "2", "3", "4", "5", "6", "7", "8", "9">>[v + 1] = c

RECURSIVE Digits(_)
\* str(n) of an int n >= 0
Digits(n) ==
    IF n < 10 THEN <<<<"0", "1", "2", "3", "4", "5", "6", "7", "8", "9">>[n + 1]>>
    ELSE Digits(n \div 10) \o Digits(n % 10)

RECURSIVE LStrip(_)
LStrip(s) == IF s # <<>> /\ Head(s) \in Whitespace THEN LStrip(Tail(s)) ELSE s

RECURSIVE RStrip(_)
RStrip(s) ==
    IF s # <<>> /\ s[Len(s)] \in Whitespace THEN RStrip(SubSeq(s, 1, Len(s) - 1)) ELSE s

\* str.strip()
Strip(s) == RStrip(LStrip(s))

\* str(cell): NaN prints as "nan", a whole number as its digits
StrOf(cell) ==
    IF cell.kind = "nan" THEN <<"n", "a", "n">>
    ELSE IF cell.kind = "str" THEN cell.s
    ELSE Digits(cell.whole)

\* pd.isna(x): of a str it is False, whatever the str holds
IsNaStr(text) == FALSE

IsNaCell(cell) == cell.kind = "nan"

RECURSIVE DigitsValue(_)
DigitsValue(s) ==
    IF s = <<>> THEN 0 ELSE DigitsValue(SubSeq(s, 1, Len(s) - 1)) * 10 + DigitValue(s[Len(s)])

AllDigits(s) == s # <<>> /\ \A i \in 1..Len(s) : s[i] \in Digit

\* float(x): a number as it is; a text, stripped, when it is digits (the other
\* texts of the model, letters and digits with a thousands comma, raise
\* ValueError)
ParseFloat(cell) ==
    IF cell.kind = "num" THEN [ok |-> TRUE, value |-> cell]
    ELSE IF cell.kind = "nan" THEN [ok |-> TRUE, value |-> NaN]
    ELSE IF AllDigits(Strip(cell.s))
    THEN [ok |-> TRUE, value |-> Num(DigitsValue(Strip(cell.s)), 0)]
    ELSE [ok |-> FALSE, value |-> NaN]

FilenameMax == 80

\* re.sub(r"[^A-Za-z0-9._-]+", "_", s): every run of other characters becomes
\* one "_"; inRun tells whether the character before s was replaced
ReplaceUnsafe(s, inRun) ==
    LET StartsRun(i) ==
            s[i] \notin SafeChar /\ (IF i = 1 THEN ~inRun ELSE s[i - 1] \in SafeChar)
        Kept(i) == s[i] \in SafeChar \/ StartsRun(i)
        kept == SelectSeq([i \in 1..Len(s) |-> i], Kept)
    IN  [k \in 1..Len(kept) |-> IF s[kept[k]] \in SafeChar THEN s[kept[k]] ELSE "_"]

\* lines 300-302
sanitize_filename(name) ==
    LET safe == ReplaceUnsafe(Strip(name), FALSE)
        cut == SubSeq(safe, 1, IF Len(safe) < FilenameMax THEN Len(safe) ELSE FilenameMax)
    IN  IF cut # <<>> THEN cut ELSE <<"receipt">>

\* Filename without the row index
FilenameOfPayeeOnly(payee, i) ==
    <<"hand_receipt_">> \o sanitize_filename(payee) \o <<".html">>

\* line 539: f"hand_receipt_{sanitize_filename(payee)}_{idx}.html"
Filename(payee, i) ==
    <<"hand_receipt_">> \o sanitize_filename(payee) \o <<"_">> \o Digits(i) \o <<".html">>

RECURSIVE EscapeQuotes(_)
\* s.replace("'", r"\'")
EscapeQuotes(s) ==
    IF s = <<>> THEN <<>>
    ELSE (IF Head(s) = "'" THEN <<"\\", "'">> ELSE <<Head(s)>>) \o EscapeQuotes(Tail(s))

\* lines 304-442: the page and the words its script writes into it.  A float
\* that is not finite prints as nan or inf, no JavaScript number: the script
\* stops and the words stay empty.
build_receipt_html(payee, amount_value, work) ==
    LET parsed == ParseFloat(amount_value)
        amount_float == IF parsed.ok THEN parsed.value ELSE Num(0, 0)
        words == IF amount_float.kind = "num"
                 THEN convertNumberToWords(amount_float) ELSE ""
    IN  [payee |-> EscapeQuotes(payee), work |-> EscapeQuotes(work),
         amount |-> amount_float,
         defaulted |-> ~parsed.ok,
         rupees |-> IF amount_float.kind = "num" THEN JsFloor(amount_float) ELSE 0,
         paise |-> IF amount_float.kind = "num" THEN JsPaise(amount_float) ELSE 0,
         words |-> words,
         amount_words |-> IF amount_float.kind = "num" THEN words \o " only" ELSE "",
         in_words |-> IF amount_float.kind = "num"
                      THEN "In Words Rupees: " \o words \o " Only" ELSE ""]

(***************************************************************************)
(* streamlit_app.show_excel_emd, lines 518-594: the loop over the rows.    *)
(* raises tells whether a statement of the try body raises an exception    *)
(* the body does not expect (lines 541-544 catch every Exception).         *)
(***************************************************************************)
\* RowNumber counting the data rows from 0, as idx does
RowNumberZeroBased(i) == i

\* lines 531, 536, 543: the row number reported, idx + 2
RowNumber(i) == i + 2

InvalidEntry(i, reason) == <<[row |-> RowNumber(i), reason |-> reason]>>

\* lines 526-544: what one iteration appends to records and to invalid_rows,
\* missing being the entry appended for a missing value (line 531)
RowResult(row, i, raises, missing) ==
    IF raises
    THEN [rec |-> <<>>, inv |-> InvalidEntry(i, [kind |-> "exception"])]
    ELSE
    LET payee == Strip(StrOf(row.payee))
        work == Strip(StrOf(row.work))
        amount_raw == row.amount
        parsed == ParseFloat(amount_raw)
    IN  IF IsNaStr(payee) \/ IsNaStr(work) \/ IsNaCell(amount_raw)
        THEN [rec |-> <<>>, inv |-> missing]
        ELSE IF ~parsed.ok
        THEN [rec |-> <<>>,
              inv |-> InvalidEntry(i, [kind |-> "amount",
                                       text |-> "Invalid amount value",
                                       raw |-> amount_raw])]
        ELSE [rec |-> <<[idx |-> i, payee |-> payee, amount |-> parsed.value,
                        work |-> work,
                        html |-> build_receipt_html(payee, parsed.value, work),
                        filename |-> Filename(payee, i)]>>,
              inv |-> <<>>]

\* RowOutcome with the append of line 531 forgotten before its continue
RowOutcomeDropsMissing(row, i, raises) == RowResult(row, i, raises, <<>>)

RowOutcome(row, i, raises) ==
    RowResult(row, i, raises,
              InvalidEntry(i, [kind |-> "missing", text |-> "Missing required values"]))

\* lines 518-524: "Generate Receipts" is pressed
generate_receipts ==
    /\ pc = "ready"
    /\ pc' = "loop"
    /\ idx' = 0
    /\ records' = <<>>
    /\ invalid_rows' = <<>>
    /\ UNCHANGED <<df, zip, app2vars, fmtvars, simplevars>>

\* process_row putting the newest entry first in both lists
process_row_newest_first(raises) ==
    /\ pc = "loop"
    /\ idx < Len(df)
    /\ LET o == RowOutcome(df[idx + 1], idx, raises)
       IN  /\ records' = o.rec \o records
           /\ invalid_rows' = o.inv \o invalid_rows
    /\ idx' = idx + 1
    /\ UNCHANGED <<df, pc, zip, app2vars, fmtvars, simplevars>>

\* lines 525-544: one iteration of the loop
process_row(raises) ==
    /\ pc = "loop"
    /\ idx < Len(df)
    /\ LET o == RowOutcome(df[idx + 1], idx, raises)
       IN  /\ records' = records \o o.rec
           /\ invalid_rows' = invalid_rows \o o.inv
    /\ idx' = idx + 1
    /\ UNCHANGED <<df, pc, zip, app2vars, fmtvars, simplevars>>

\* lines 546-594: the report when nothing was generated, else the downloads
finish_receipts ==
    /\ pc = "loop"
    /\ idx = Len(df)
    /\ IF records = <<>>
       THEN pc' = "no_valid_rows" /\ zip' = <<>>
       ELSE pc' = "done" /\ zip' = [i \in 1..Len(records) |-> records[i].filename]
    /\ UNCHANGED <<df, idx, records, invalid_rows, app2vars, fmtvars, simplevars>>

\* a payee cell left empty or filled; a work cell holding a blank or filled
PayeeCells == {NaN, Text(<<"R", "a", "m">>)}

WorkCells == {Text(<<" ">>), Text(<<"R", "o", "a", "d">>)}

AmountCells == {NaN, Num(1234, 5600), Text(<<"a", "b", "c">>), Text(<<"1", "2">>)}

BulkRows == [payee : PayeeCells, work : WorkCells, amount : AmountCells]

\* line 477: an empty table never reaches the generator
Tables == UNION {[1..n -> BulkRows] : n \in 1..MaxBatch}

(***************************************************************************)
(* Widget values.  Names: a text field left empty or filled.  The rate     *)
(* sets hold the widgets' minimum, default and maximum.                    *)
(***************************************************************************)
Names == {"", "X"}

D_2023_12_31 == Date(2023, 12, 31)
D_2024_01_01 == Date(2024, 1, 1)
D_2024_01_31 == Date(2024, 1, 31)
D_2024_02_01 == Date(2024, 2, 1)
D_2024_03_31 == Date(2024, 3, 31)
D_2024_04_01 == Date(2024, 4, 1)
D_2024_04_10 == Date(2024, 4, 10)

SessionDates == {D_2024_01_01, D_2024_04_10}

AllDates ==
    {D_2023_12_31, D_2024_01_01, D_2024_01_31, D_2024_02_01, D_2024_03_31,
     D_2024_04_01, D_2024_04_10}

\* the forms a user fills in during a session
SessionForms ==
    EmdForms(Names, {5000})
    \cup DelayForms(Names, SessionDates, {5}, {1000000})
    \cup BillForms(Names, {100000}, {18}, {2}, {5}, {1}, {0})
    \cup DeductionForms({100000}, {2}, {18}, {1}, {3}, {5}, {0})
    \cup SecurityForms(Names, {5000}, {0}, {D_2024_01_01}, {TRUE}, {6})

\* the forms on which the calculations are checked
CalculationForms ==
    EmdForms(Names, {1, 5000, 100000})
    \cup DelayForms(Names, AllDates, {0, 5, 10}, {1000, 1000000})
    \cup BillForms(Names, {1, 250, 100000}, {0, 18, 28}, {0, 2, 10}, {0, 5, 10},
                   {0, 1, 2}, {0, 500})
    \cup DeductionForms({100, 250, 100000}, {0, 2, 10}, {0, 18, 28}, {0, 1}, {0, 3},
                        {0, 5}, {0, 60000})
    \cup SecurityForms(Names, {1000, 5000}, {0, 2000}, AllDates, BOOLEAN, {0, 6, 15})

\* the user edits the widgets of a tool's form (no script logic runs on them)
enter_form ==
    /\ form' \in SessionForms
    /\ UNCHANGED <<emd_refunds, delays, bills, out, open_conns, runs, bulkvars, fmtvars, simplevars>>

(***************************************************************************)
(* streamlit_app: the two forms of the simplified application that write   *)
(* to pwd_tools.db through the cached connection db.  The id and the       *)
(* created_date of a row are set by the INSERT and never read again.       *)
(***************************************************************************)
\* st.number_input("Amount", step=1000.0) has neither min_value nor max_value
SimpleAmounts == {0 - 1000, 0, 1000}

\* lines 156-175: the tools of main that show a form of three widgets
SimpleTools ==
    {"bill_note", "emd_refund", "security_refund", "financial_progress",
     "delay_calc", "stamp_duty", "simple_deductions", "bill_deviation"}

\* lines 596-622: the tools with an INSERT
WritingTools == {"bill_note", "emd_refund"}

SimpleForms ==
    [tool : WritingTools, payee : Names, amount : SimpleAmounts, work : Names]
    \cup [tool : SimpleTools \ WritingTools, payee : Names, amount : {1000},
          work : {"X"}]

\* SimpleFormFilled asking for an amount above zero
SimpleFormFilledPositiveAmount(f) == f.payee # "" /\ f.amount > 0 /\ f.work # ""

\* lines 603 and 619: the truth value of "payee and amount and work"
SimpleFormFilled(f) == f.payee # "" /\ f.amount # 0 /\ f.work # ""

\* InsertRow as INSERT OR REPLACE on a table whose rows all share one key
InsertRowOverwrites(table, row) == <<row>>

\* lines 604-605 and 620-621: INSERT INTO ... VALUES (NULL, ...) and commit; the
\* AUTOINCREMENT id puts the new row after every row of the table
InsertRow(table, row) == Append(table, row)

\* lines 596-608
show_bill_note(db_ok) ==
    /\ form.tool = "bill_note"
    /\ runs < MaxRuns
    /\ runs' = runs + 1
    /\ IF ~SimpleFormFilled(form)
       THEN out' = NoOutput /\ UNCHANGED pwd_bills
       ELSE IF db_ok
       THEN /\ pwd_bills' = InsertRow(pwd_bills,
                    [payee_name |-> form.payee, amount |-> form.amount,
                     work |-> form.work])
            /\ out' = [kind |-> "bill_note", amount |-> form.amount]
       ELSE out' = Traceback("bill_note") /\ UNCHANGED pwd_bills
    /\ UNCHANGED <<form, emd_refunds, delays, bills, open_conns, pwd_emd_refunds,
                   pwd_project_delays, mapvars, routevars, bulkvars, fmtvars>>

\* lines 610-622, the fallback form shown when EmdRefund.html is not installed
show_emd_refund(db_ok) ==
    /\ form.tool = "emd_refund"
    /\ runs < MaxRuns
    /\ runs' = runs + 1
    /\ IF ~SimpleFormFilled(form)
       THEN out' = NoOutput /\ UNCHANGED pwd_emd_refunds
       ELSE IF db_ok
       THEN /\ pwd_emd_refunds' = InsertRow(pwd_emd_refunds,
                    [payee_name |-> form.payee, amount |-> form.amount,
                     work |-> form.work])
            /\ out' = [kind |-> "emd_refund", amount |-> form.amount]
       ELSE out' = Traceback("emd_refund") /\ UNCHANGED pwd_emd_refunds
    /\ UNCHANGED <<form, emd_refunds, delays, bills, open_conns, pwd_bills,
                   pwd_project_delays, mapvars, routevars, bulkvars, fmtvars>>

\* a script run of a tool of the simplified application that has no INSERT:
\* it renders and leaves every table alone
RenderOnly(tool, rendered) ==
    /\ form.tool = tool
    /\ runs < MaxRuns
    /\ runs' = runs + 1
    /\ out' = rendered
    /\ UNCHANGED <<form, emd_refunds, delays, bills, open_conns, bulkvars, fmtvars,
                   simplevars>>

\* lines 624-633, the fallback form
show_security_refund ==
    RenderOnly("security_refund",
               IF SimpleFormFilled(form)
               THEN [kind |-> "security_refund", message |-> "Eligible"]
               ELSE NoOutput)

\* lines 635-644, the fallback form
show_financial_progress ==
    RenderOnly("financial_progress",
               IF SimpleFormFilled(form)
               THEN [kind |-> "financial_progress", progress |-> 100]
               ELSE NoOutput)

\* lines 646-655: the two metrics are constants
show_delay_calc ==
    RenderOnly("delay_calc",
               IF SimpleFormFilled(form)
               THEN [kind |-> "delay_calc", delay_days |-> 0, penalty |-> 0]
               ELSE NoOutput)

\* lines 657-666, the fallback form: duty = amount * 0.005
show_stamp_duty ==
    RenderOnly("stamp_duty",
               [kind |-> "stamp_duty", duty |-> (Rupees(form.amount) * 5) \div 1000])

\* lines 668-677, the fallback form: net = amount * 0.88
show_deductions ==
    RenderOnly("simple_deductions",
               [kind |-> "simple_deductions",
                net |-> (Rupees(form.amount) * 88) \div 100])

\* lines 679-689: revised = amount * 1.05
show_bill_deviation ==
    RenderOnly("bill_deviation",
               [kind |-> "bill_deviation",
                revised |-> (Rupees(form.amount) * 105) \div 100])

\* lines 237-239: the three metrics of the dashboard
DashboardMetrics ==
    [Bills |-> Len(pwd_bills), EMD |-> Len(pwd_emd_refunds),
     Delays |-> Len(pwd_project_delays)]

\* the user edits the widgets of a form of the simplified application
enter_simple_form ==
    /\ form' \in SimpleForms
    /\ UNCHANGED <<emd_refunds, delays, bills, out, open_conns, runs, bulkvars,
                   fmtvars, simplevars>>

SubmitSimple ==
    \/ \E db_ok \in BOOLEAN : show_bill_note(db_ok)
    \/ \E db_ok \in BOOLEAN : show_emd_refund(db_ok)
    \/ show_security_refund
    \/ show_financial_progress
    \/ show_delay_calc
    \/ show_stamp_duty
    \/ show_deductions
    \/ show_bill_deviation

(***************************************************************************)
(* streamlit_app show_excel_emd: the defaults of the three column          *)
(* selectboxes.  A column name is a string.                                *)
(***************************************************************************)
UpperCase ==
    <<"A", "B", "C", "D", "E", "F", "G", "H", "I", "J", "K", "L", "M", "N", "O",
      "P", "Q", "R", "S", "T", "U", "V", "W", "X", "Y", "Z">>

LowerCase ==
    <<"a", "b", "c", "d", "e", "f", "g", "h", "i", "j", "k", "l", "m", "n", "o",
      "p", "q", "r", "s", "t", "u", "v", "w", "x", "y", "z">>

RECURSIVE Lower(_)
\* line 502: c.lower(), one character after the other
Lower(s) ==
    IF Len(s) = 0 THEN ""
    ELSE LET c == SubSeq(s, 1, 1)
             lowered ==
                 IF \E i \in 1..Len(UpperCase) : UpperCase[i] = c
                 THEN LowerCase[CHOOSE i \in 1..Len(UpperCase) : UpperCase[i] = c]
                 ELSE c
         IN  lowered \o Lower(SubSeq(s, 2, Len(s)))

\* line 503: p in lc
Contains(p, lc) ==
    \E i \in 1..(Len(lc) - Len(p) + 1) : SubSeq(lc, i, i + Len(p) - 1) = p

\* line 503: any(p in lc for p in patterns)
MatchesAny(c, patterns) ==
    \E k \in 1..Len(patterns) : Contains(patterns[k], Lower(c))

None == "None"

\* lines 500-505: the first column, in the order of the table, whose lower-cased
\* name holds any of the patterns
guess(colnames, patterns) ==
    IF \E j \in 1..Len(colnames) : MatchesAny(colnames[j], patterns)
    THEN colnames[CHOOSE j \in 1..Len(colnames) :
                      /\ MatchesAny(colnames[j], patterns)
                      /\ \A i \in 1..(j - 1) : ~MatchesAny(colnames[i], patterns)]
    ELSE None

\* lines 506-508: the pattern lists
PayeePatterns == <<"payee", "contractor", "name">>

AmountPatterns == <<"amount", "amt", "emd", "value">>

WorkPatterns == <<"work", "name of work", "work name">>

\* lines 506-508: "guess(...) or cols[min(n, len(cols)-1)]", the list 0-based
DefaultColumn(colnames, patterns, n) ==
    LET guessed == guess(colnames, patterns)
    IN  IF guessed # None THEN guessed
        ELSE LET last == Len(colnames) - 1
             IN  colnames[(IF n < last THEN n ELSE last) + 1]

\* lines 513-517: index=cols.index(default) if default in cols else fallback,
\* list.index giving the 0-based place of the first equal element
SelectboxIndex(colnames, default, fallback) ==
    IF \E j \in 1..Len(colnames) : colnames[j] = default
    THEN (CHOOSE j \in 1..Len(colnames) :
              /\ colnames[j] = default
              /\ \A i \in 1..(j - 1) : colnames[i] # default) - 1
    ELSE fallback

NoMapping == [shown |-> FALSE]

\* lines 498-517: the three selectboxes as they are first shown
map_columns ==
    /\ ~mapping.shown
    /\ Len(cols) > 0
    /\ LET default_payee == DefaultColumn(cols, PayeePatterns, 0)
           default_amount == DefaultColumn(cols, AmountPatterns, 1)
           default_work == DefaultColumn(cols, WorkPatterns, 2)
       IN  mapping' =
               [shown |-> TRUE,
                payee_col |-> cols[SelectboxIndex(cols, default_payee, 0) + 1],
                amount_col |->
                    cols[SelectboxIndex(cols, default_amount,
                                        IF Len(cols) > 1 THEN 1 ELSE 0) + 1],
                work_col |->
                    cols[SelectboxIndex(cols, default_work,
                                        IF Len(cols) > 2 THEN 2 ELSE 0) + 1]]
    /\ UNCHANGED <<cols, pwd_bills, pwd_emd_refunds, pwd_project_delays, routevars,
                   app2vars, bulkvars, fmtvars>>

(***************************************************************************)
(* streamlit_app main: the routing of a script run to a tool.              *)
(***************************************************************************)
Dashboard == "Dashboard"

\* lines 138-149: the options of the sidebar selectbox
Tools ==
    {Dashboard, "Excel EMD", "Bill Note", "EMD Refund", "Security Refund",
     "Financial Progress", "Delay Calc", "Stamp Duty", "Deductions",
     "Bill Deviation"}

\* lines 283-292: the native buttons of the dashboard
OpenButtons == {"Excel EMD", "Bill Note", "EMD Refund"}

\* the key selected_tool_override is not in st.session_state
NoOverride == "absent"

\* no button was clicked to start the script run
NoClick == "none"

\* RoutedTool reading the sidebar alone
RoutedToolSidebarOnly(selected, override) == selected

\* lines 152-153: the override, when the session holds one, replaces the choice
\* of the sidebar
RoutedTool(selected, override) ==
    IF override # NoOverride THEN override ELSE selected

\* lines 126-182 and 283-292: one script run.  choice is the value of the
\* sidebar selectbox in this run and clicked the dashboard button whose click
\* started it; a button can be clicked only while the dashboard is on screen,
\* and a click leaves the sidebar as it was.  The run pops the override, routes,
\* and a dashboard it renders stores the override of the clicked button.
main(choice, clicked) ==
    /\ Len(pages) < MaxRoutes
    /\ clicked # NoClick =>
           /\ pages # <<>>
           /\ pages[Len(pages)].routed = Dashboard
           /\ choice = selected_tool
    /\ selected_tool' = choice
    /\ LET tool == RoutedTool(choice, selected_tool_override)
       IN  /\ pages' = Append(pages, [selected |-> choice, routed |-> tool])
           /\ selected_tool_override' =
                  IF tool = Dashboard /\ clicked # NoClick
                  THEN clicked
                  ELSE NoOverride
    /\ UNCHANGED <<pwd_bills, pwd_emd_refunds, pwd_project_delays, mapvars,
                   app2vars, bulkvars, fmtvars>>

(***************************************************************************)
(* Spec: a session of the advanced application, the user filling in and    *)
(* submitting forms.  SpecCalc: one filled-in form, submitted repeatedly.  *)
(***************************************************************************)
StoreInit ==
    /\ emd_refunds = <<>>
    /\ delays = <<>>
    /\ bills = <<>>
    /\ out = NoOutput
    /\ open_conns = 0
    /\ runs = 0
    /\ pwd_bills = <<>>
    /\ pwd_emd_refunds = <<>>
    /\ pwd_project_delays = <<>>

\* no file uploaded, so no column to map
MapIdle ==
    /\ cols = <<>>
    /\ mapping = NoMapping

\* lines 138-149: the sidebar opens on its first option and the session state
\* is empty
RouteIdle ==
    /\ selected_tool = Dashboard
    /\ selected_tool_override = NoOverride
    /\ pages = <<>>

\* no file uploaded to the bulk receipt tool
BulkIdle ==
    /\ df = <<>>
    /\ pc = "idle"
    /\ idx = 0
    /\ records = <<>>
    /\ invalid_rows = <<>>
    /\ zip = <<>>

\* no value handed to a formatter
FmtIdle ==
    /\ fmt_in = Num(0, 0)
    /\ fmt_words = <<>>
    /\ fmt_page = <<>>

Init == form = NoForm /\ StoreInit /\ MapIdle /\ RouteIdle /\ BulkIdle /\ FmtIdle

InitCalc ==
    /\ form \in CalculationForms
    /\ StoreInit /\ MapIdle /\ RouteIdle /\ BulkIdle /\ FmtIdle

Submit ==
    \/ \E db_ok \in BOOLEAN : show_advanced_emd_refund(db_ok)
    \/ \E db_ok \in BOOLEAN : show_advanced_delay_calculator(db_ok)
    \/ \E db_ok \in BOOLEAN : show_professional_bill_sheet(db_ok)
    \/ show_advanced_deductions
    \/ \E today \in AllDates : show_security_refund_advanced(today)

Next == enter_form \/ Submit \/ enter_simple_form \/ SubmitSimple

Spec == Init /\ [][Next]_vars

SpecCalc == InitCalc /\ [][Submit]_vars

(***************************************************************************)
(* SpecDelay: the delay calculator of the advanced application, the user   *)
(* changing the two dates between the analyses.                            *)
(***************************************************************************)
DelayDates == {D_2023_12_31, D_2024_01_01, D_2024_01_31, D_2024_03_31, D_2024_04_10}

\* lines 446-447: the user picks the two dates
enter_delay_dates ==
    /\ form.tool = "delay"
    /\ \E a \in DelayDates, b \in DelayDates :
           form' = [form EXCEPT !.original_date = a, !.actual_date = b]
    /\ UNCHANGED <<emd_refunds, delays, bills, out, open_conns, runs, bulkvars,
                   fmtvars, simplevars>>

InitDelay ==
    /\ form \in DelayForms({"X"}, DelayDates, {5}, {1000000})
    /\ StoreInit /\ MapIdle /\ RouteIdle
    /\ BulkIdle
    /\ FmtIdle

NextDelay ==
    \/ enter_delay_dates
    \/ \E db_ok \in BOOLEAN : show_advanced_delay_calculator(db_ok)

SpecDelay == InitDelay /\ [][NextDelay]_vars

(***************************************************************************)
(* SpecRates: the bill sheet and the deductions table, the user typing     *)
(* rates into the number_input widgets between the submissions.  A rate    *)
(* widget is st.number_input(min_value=0.0, max_value=...): a number       *)
(* outside the two limits is not accepted and the widget keeps its value.  *)
(***************************************************************************)
\* lines 602-605 and 730-734: the max_value of the rate widgets, in percent
GstMax == 28

TdsMax == 10

RetentionMax == 10

LabourCessMax == 2

PerformanceMax == 10

\* number_input handing on whatever was typed
number_input_unchecked(min_value, max_value, value, entered) == entered

\* the value of a number_input holding value after entered is typed into it
number_input(min_value, max_value, value, entered) ==
    IF entered < min_value \/ entered > max_value THEN value ELSE entered

\* what the user types into a rate widget: its maximum, or one more
RateEntries(max_value) == {max_value, max_value + 1}

\* lines 602-605
enter_bill_rates ==
    /\ form.tool = "bill"
    /\ \E g \in RateEntries(GstMax), t \in RateEntries(TdsMax),
          r \in RateEntries(RetentionMax), c \in RateEntries(LabourCessMax) :
           form' = [form EXCEPT
                        !.gst_rate = number_input(0, GstMax, @, g),
                        !.tds_rate = number_input(0, TdsMax, @, t),
                        !.retention_rate = number_input(0, RetentionMax, @, r),
                        !.labour_cess = number_input(0, LabourCessMax, @, c)]
    /\ UNCHANGED <<emd_refunds, delays, bills, out, open_conns, runs, bulkvars,
                   fmtvars, simplevars>>

\* lines 730-734
enter_deduction_rates ==
    /\ form.tool = "deductions"
    /\ \E g \in RateEntries(GstMax), t \in RateEntries(TdsMax),
          r \in RateEntries(RetentionMax), c \in RateEntries(LabourCessMax),
          p \in RateEntries(PerformanceMax) :
           form' = [form EXCEPT
                        !.tds_rate = number_input(0, TdsMax, @, t),
                        !.gst_rate = number_input(0, GstMax, @, g),
                        !.labour_cess_rate = number_input(0, LabourCessMax, @, c),
                        !.performance_rate = number_input(0, PerformanceMax, @, p),
                        !.retention_rate = number_input(0, RetentionMax, @, r)]
    /\ UNCHANGED <<emd_refunds, delays, bills, out, open_conns, runs, bulkvars,
                   fmtvars, simplevars>>

\* the two forms as they open, every rate at the value= of its widget
InitRates ==
    /\ form \in BillForms({"X"}, {100000}, {18}, {2}, {5}, {1}, {0})
                \cup DeductionForms({100000}, {2}, {18}, {1}, {3}, {5}, {0})
    /\ StoreInit /\ MapIdle /\ RouteIdle
    /\ BulkIdle
    /\ FmtIdle

NextRates ==
    \/ enter_bill_rates
    \/ enter_deduction_rates
    \/ \E db_ok \in BOOLEAN : show_professional_bill_sheet(db_ok)
    \/ show_advanced_deductions

SpecRates == InitRates /\ [][NextRates]_vars

(***************************************************************************)
(* SpecMap: the bulk receipt tool shows the column selectboxes for an      *)
(* uploaded table.                                                         *)
(***************************************************************************)
ColumnNames == {"Payee", "CONTRACTOR", "Name of Work", "Amount", "Sr", "EMD Value"}

\* lines 469-479 and 499: a table that was read has at least one column, and
\* pandas keeps the names of the columns distinct
ColumnLists ==
    {c \in UNION {[1..n -> ColumnNames] : n \in 1..MaxCols} :
         \A i \in 1..Len(c) : \A j \in 1..Len(c) : i # j => c[i] # c[j]}

InitMap ==
    /\ form = NoForm
    /\ StoreInit /\ RouteIdle /\ BulkIdle /\ FmtIdle
    /\ cols \in ColumnLists
    /\ mapping = NoMapping

NextMap == map_columns

SpecMap == InitMap /\ [][NextMap]_vars

(***************************************************************************)
(* SpecRoute: script runs of main, the user changing the sidebar or        *)
(* clicking a button of the dashboard between them.                        *)
(***************************************************************************)
InitRoute ==
    /\ form = NoForm
    /\ StoreInit /\ MapIdle /\ RouteIdle /\ BulkIdle /\ FmtIdle

NextRoute == \E choice \in Tools, clicked \in OpenButtons \cup {NoClick} : main(choice, clicked)

SpecRoute == InitRoute /\ [][NextRoute]_vars

(***************************************************************************)
(* SpecBulk: one run of the bulk receipt generator of the simplified       *)
(* application on an uploaded table.                                       *)
(***************************************************************************)
InitBulk ==
    /\ form = NoForm
    /\ StoreInit /\ MapIdle /\ RouteIdle
    /\ df \in Tables
    /\ pc = "ready"
    /\ idx = 0
    /\ records = <<>>
    /\ invalid_rows = <<>>
    /\ zip = <<>>
    /\ FmtIdle

NextBulk ==
    \/ generate_receipts
    \/ \E raises \in BOOLEAN : process_row(raises)
    \/ finish_receipts

SpecBulk == InitBulk /\ [][NextBulk]_vars

(***************************************************************************)
(* SpecNames: a run of the bulk receipt generator on a table of valid rows *)
(* whose payee names are equal, or differ only in characters that          *)
(* sanitize_filename replaces or cuts off.                                 *)
(***************************************************************************)
\* a name of FilenameMax + 1 characters, the last being c
LongName(c) == [i \in 1..(FilenameMax + 1) |-> IF i = FilenameMax + 1 THEN c ELSE "a"]

NameCells ==
    {Text(<<"a", " ", "b">>), Text(<<"a", "_", "b">>), Text(LongName("x")),
     Text(LongName("y"))}

NameRows ==
    [payee : NameCells, work : {Text(<<"R", "o", "a", "d">>)}, amount : {Num(1234, 5600)}]

NameTables == UNION {[1..n -> NameRows] : n \in 1..MaxBatch}

InitNames ==
    /\ form = NoForm
    /\ StoreInit /\ MapIdle /\ RouteIdle
    /\ df \in NameTables
    /\ pc = "ready"
    /\ idx = 0
    /\ records = <<>>
    /\ invalid_rows = <<>>
    /\ zip = <<>>
    /\ FmtIdle

SpecNames == InitNames /\ [][NextBulk]_vars

(***************************************************************************)
(* SpecFmt: the two currency formatters, each called once on one value:    *)
(* indian_number_to_words as show_professional_bill_sheet calls it, and    *)
(* build_receipt_html, whose page runs convertNumberToWords.               *)
(***************************************************************************)
FmtWholes == {0, 1, 15, 20, 100, 1234, 100000, 10000000, 12345678}

FmtFracs == {0, 900, 5000, 5600, 5678, 9964}

FmtAmounts ==
    {Num(w, f) : w \in FmtWholes, f \in FmtFracs}
    \cup {NaN, Text(<<"a", "b", "c">>), Text(<<"1", "2">>)}

\* Streamlit_app2.py line 692: the formatter is called on a value
call_indian_number_to_words ==
    /\ fmt_words = <<>>
    /\ fmt_words' = <<indian_number_to_words(fmt_in)>>
    /\ UNCHANGED <<fmt_in, fmt_page, app2vars, bulkvars, simplevars>>

\* streamlit_app.py line 536: a page is built for a value
call_build_receipt_html ==
    /\ fmt_page = <<>>
    /\ fmt_page' = <<build_receipt_html(<<"R", "a", "m">>, fmt_in, <<"R", "o", "a", "d">>)>>
    /\ UNCHANGED <<fmt_in, fmt_words, app2vars, bulkvars, simplevars>>

InitFmt ==
    /\ form = NoForm
    /\ StoreInit /\ MapIdle /\ RouteIdle
    /\ BulkIdle
    /\ fmt_in \in FmtAmounts
    /\ fmt_words = <<>>
    /\ fmt_page = <<>>

NextFmt == call_indian_number_to_words \/ call_build_receipt_html

SpecFmt == InitFmt /\ [][NextFmt]_vars


(***************************************************************************)
(* Claims about the calculations of the advanced application (SpecCalc).   *)
(***************************************************************************)
BillScenario ==
    /\ form.tool = "bill"
    /\ form.current_claim = 100000 /\ form.gst_rate = 18 /\ form.tds_rate = 2
    /\ form.retention_rate = 5 /\ form.labour_cess = 1 /\ form.other_deductions = 0

\* C1: every professional bill sheet shown has GST = claim * gst/100, gross =
\* claim + GST, TDS = gross * tds/100, retention = claim * retention/100, labour
\* cess = claim * cess/100, total deductions = TDS + retention + cess + other and
\* net payment = gross - total deductions; claim 100000 at 18/2/5/1 percent and
\* no other deduction gives 18000, 118000, 2360, 5000, 1000, 8360 and 109640.
\* (One rupee-percent is Scale/100 units; TDS on the gross is claim *
\* (100 + gst) * tds rupee-percent-percent, one of which is Scale/10000 units.)
C1_BillArithmetic ==
    out.kind = "bill" =>
        LET c == out.sheet
            claim == form.current_claim
        IN  /\ claim > 0
            /\ c.gst_amount = claim * form.gst_rate * (Scale \div 100)
            /\ c.gross_with_gst = claim * Scale + c.gst_amount
            /\ c.tds_amount = claim * (100 + form.gst_rate) * form.tds_rate
            /\ c.retention_amount = claim * form.retention_rate * (Scale \div 100)
            /\ c.labour_cess_amount = claim * form.labour_cess * (Scale \div 100)
            /\ c.total_deductions =
                   c.tds_amount + c.retention_amount + c.labour_cess_amount
                   + form.other_deductions * Scale
            /\ c.net_payment = c.gross_with_gst - c.total_deductions
            /\ BillScenario =>
                   /\ c.gst_amount = 18000 * Scale
                   /\ c.gross_with_gst = 118000 * Scale
                   /\ c.tds_amount = 2360 * Scale
                   /\ c.retention_amount = 5000 * Scale
                   /\ c.labour_cess_amount = 1000 * Scale
                   /\ c.total_deductions = 8360 * Scale
                   /\ c.net_payment = 109640 * Scale

\* C1 witness: the bill of the scenario has been generated
C1_Witness == out.kind = "bill" /\ BillScenario /\ out.sheet.net_payment = 109640 * Scale

DelayScenario ==
    /\ form.tool = "delay"
    /\ form.original_date = D_2024_01_01 /\ form.actual_date = D_2024_04_10
    /\ form.project_value = 1000000 /\ form.penalty_rate = 5

\* C2: every delay analysis shown has penalty 0 when delay_days <= 0 and penalty
\* project_value * (rate/100) * delay_days when delay_days > 0, never a negative
\* penalty, and the same penalty in the row it stored; planned 2024-01-01, actual
\* 2024-04-10, value 1000000 and rate 0.05 give 100 days and penalty 50000.
C2_DelayPenalty ==
    out.kind = "delay" =>
        /\ out.delay_days <= 0 => out.penalty_amount = 0
        /\ out.delay_days > 0 =>
               out.penalty_amount =
                   form.project_value * form.penalty_rate * out.delay_days
        /\ out.penalty_amount >= 0
        /\ delays[Len(delays)].penalty_amount = out.penalty_amount
        /\ (form.actual_date = form.original_date) <=> (out.delay_days = 0)
        /\ DelayScenario =>
               out.delay_days = 100 /\ out.penalty_amount = 50000 * Scale

\* C2 witness: the analysis of the scenario has been shown
C2_Witness ==
    out.kind = "delay" /\ DelayScenario /\ out.penalty_amount = 50000 * Scale

(***************************************************************************)
(* Claims about the bulk receipt generator (SpecBulk).                     *)
(***************************************************************************)
Finished == pc \in {"done", "no_valid_rows"}

\* a cell that is missing or empty
CellMissing(cell) ==
    cell.kind = "nan" \/ (cell.kind = "str" /\ Strip(cell.s) = <<>>)

HasReceipt(i) == \E k \in 1..Len(records) : records[k].idx = i

HasInvalidEntry(i) == \E k \in 1..Len(invalid_rows) : invalid_rows[k].row = i + 2

\* C3: every visited row whose payee, work or amount cell is missing or empty,
\* or whose amount does not parse as a number, is in invalid_rows and has no
\* receipt.
C3_MissingOrUnparseableIsInvalid ==
    \A i \in 0..(idx - 1) :
        LET row == df[i + 1]
        IN  (\/ CellMissing(row.payee) \/ CellMissing(row.work)
             \/ CellMissing(row.amount) \/ ~ParseFloat(row.amount).ok)
            => (HasInvalidEntry(i) /\ ~HasReceipt(i))

\* C4: while the loop runs every visited row is in exactly one of records and
\* invalid_rows, no row is visited past the last, and a run ends only
\* after the last row, with len(records) + len(invalid_rows) = N.
C4_EveryRowEndsInOneList ==
    /\ pc \in {"loop", "done", "no_valid_rows"} =>
           /\ Len(records) + Len(invalid_rows) = idx
           /\ \A i \in 0..(idx - 1) :
                  Cardinality({k \in 1..Len(records) : records[k].idx = i})
                  + Cardinality({k \in 1..Len(invalid_rows) :
                                     invalid_rows[k].row = i + 2}) = 1
    /\ pc = "loop" => idx <= Len(df)
    /\ Finished => idx = Len(df) /\ Len(records) + Len(invalid_rows) = Len(df)

\* C4 witness: a run over three rows has ended with a row that raised, a row
\* with a missing amount and a row that was rendered
C4_Witness ==
    /\ pc = "done" /\ Len(df) = 3 /\ Len(records) = 1
    /\ \E k \in 1..Len(invalid_rows) : invalid_rows[k].reason.kind = "exception"
    /\ \E k \in 1..Len(invalid_rows) : invalid_rows[k].reason.kind = "missing"

\* the batch is valid but for row k (counted from 1), whose amount is no number
OnlyRowWithBadAmount(k) ==
    /\ k \in 1..Len(df)
    /\ \A j \in 1..Len(df) :
           /\ ~CellMissing(df[j].payee) /\ ~CellMissing(df[j].work)
           /\ ~CellMissing(df[j].amount)
           /\ (j = k) <=> ~ParseFloat(df[j].amount).ok

NoRowRaised ==
    \A k \in 1..Len(invalid_rows) : invalid_rows[k].reason.kind # "exception"

\* C5 as stated: of N otherwise valid rows with a non-numeric amount in row k
\* alone, N-1 yield receipts and the one invalid entry cites row number k.
C5_Original ==
    Finished =>
        \A k \in 1..Len(df) :
            (OnlyRowWithBadAmount(k) /\ NoRowRaised) =>
                /\ Len(records) = Len(df) - 1
                /\ Len(invalid_rows) = 1
                /\ invalid_rows[1].row = k

\* C5 as amended: ... and the one invalid entry cites row number k + 1, the
\* line of the row in the spreadsheet, whose line 1 is the header.
C5_CitesSpreadsheetLine ==
    Finished =>
        \A k \in 1..Len(df) :
            (OnlyRowWithBadAmount(k) /\ NoRowRaised) =>
                /\ Len(records) = Len(df) - 1
                /\ Len(invalid_rows) = 1
                /\ invalid_rows[1].row = k + 1
                /\ invalid_rows[1].reason.kind = "amount"

\* C5 witness: a run over three rows, the second with a non-numeric amount
C5_Witness ==
    pc = "done" /\ Len(df) = 3 /\ OnlyRowWithBadAmount(2) /\ NoRowRaised

(***************************************************************************)
(* Claims about the currency formatters (SpecFmt).                         *)
(***************************************************************************)
EndsWith(s, t) == Len(s) >= Len(t) /\ SubSeq(s, Len(s) - Len(t) + 1, Len(s)) = t

StartsWith(s, t) == Len(s) >= Len(t) /\ SubSeq(s, 1, Len(t)) = t

Occurrences(s, t) ==
    Cardinality({i \in 1..(Len(s) - Len(t) + 1) : SubSeq(s, i, i + Len(t) - 1) = t})

NonNegative(a) == a.kind = "num" /\ ~a.neg

\* round(frac(A) * 100)
RoundedPaise(a) == (a.frac + 50) \div 100

\* the words the receipt shows after "In Words Rupees: "
ReceiptWords == fmt_page[1].words \o " Only"

Conforms(text, a) ==
    IF RoundedPaise(a) > 0
    THEN /\ EndsWith(text, " Paise Only")
         /\ Occurrences(text, " Rupees and ") >= 1
         /\ a.whole = 0 => StartsWith(text, "Zero Rupees and ")
    ELSE /\ EndsWith(text, " Rupees Only")
         /\ a.whole = 0 => text = "Zero Rupees Only"

\* C6: for every non-negative amount both formatters return
\* "<RupeeWords> Rupees and <PaiseWords> Paise Only" when the paise part is > 0
\* and "<RupeeWords> Rupees Only" otherwise, RupeeWords being "Zero" when the
\* rupee part is 0.
C6_OutputFormat ==
    NonNegative(fmt_in) =>
        /\ fmt_words # <<>> => Conforms(fmt_words[1].text, fmt_in)
        /\ fmt_page # <<>> => Conforms(ReceiptWords, fmt_in)

\* C7: for every non-negative amount A both formatters put floor(A) rupees and
\* round(frac(A) * 100) paise into words.
C7_FloorAndRoundedPaise ==
    NonNegative(fmt_in) =>
        /\ fmt_words # <<>> =>
               /\ fmt_words[1].rupees = fmt_in.whole
               /\ fmt_words[1].paise = RoundedPaise(fmt_in)
        /\ fmt_page # <<>> =>
               /\ fmt_page[1].rupees = fmt_in.whole
               /\ fmt_page[1].paise = RoundedPaise(fmt_in)

LegalWords1234_56 ==
    "One Thousand Two Hundred and Thirty Four Rupees and Fifty Six Paise Only"

\* C8: for amount 1234.56 the words of both formatters are "One Thousand Two
\* Hundred and Thirty Four Rupees and Fifty Six Paise Only", and the words of an
\* amount of one rupee or more hold the unit word "Rupees" exactly once.
C8_IndianGroupingWords ==
    /\ fmt_in = Num(1234, 5600) =>
           /\ fmt_words # <<>> => fmt_words[1].text = LegalWords1234_56
           /\ fmt_page # <<>> => ReceiptWords = LegalWords1234_56
    /\ (NonNegative(fmt_in) /\ fmt_in.whole > 0) =>
           /\ fmt_words # <<>> => Occurrences(fmt_words[1].text, "Rupees") = 1
           /\ fmt_page # <<>> => Occurrences(ReceiptWords, "Rupees") = 1

\* C9: a value that is no number, or that does not parse as one, makes the
\* formatter fail with an error the caller sees; it never returns the numeric
\* fallback or a default amount in place of the failure.
C9_FailureIsReported ==
    /\ (fmt_words # <<>> /\ fmt_in.kind # "num") =>
           fmt_words[1].raised /\ ~fmt_words[1].fallback
    /\ (fmt_page # <<>> /\ ~ParseFloat(fmt_in).ok) => ~fmt_page[1].defaulted

(***************************************************************************)
(* Claims about the record store of the advanced application (Spec).       *)
(***************************************************************************)
StoreRows == Len(emd_refunds) + Len(delays) + Len(bills)

IsPrefix(a, b) == Len(a) <= Len(b) /\ SubSeq(b, 1, Len(a)) = a

\* the form on screen has a required text field empty or its amount not > 0
FormRejected ==
    \/ form.tool = "emd" /\ (form.payee_name = "" \/ form.work_description = ""
                             \/ form.amount <= 0)
    \/ form.tool = "delay" /\ (form.project_name = "" \/ form.contractor_name = "")
    \/ form.tool = "bill" /\ (form.bill_number = "" \/ form.contractor_name = ""
                              \/ form.work_description = "" \/ form.current_claim <= 0)
    \/ form.tool = "deductions" /\ form.base_amount <= 0
    \/ form.tool = "security" /\ (form.contractor_name = "" \/ form.work_description = ""
                                  \/ form.security_amount <= 0)

C11_AppendOnly ==
    [][/\ IsPrefix(emd_refunds, emd_refunds')
       /\ IsPrefix(delays, delays')
       /\ IsPrefix(bills, bills')
       /\ IsPrefix(pwd_bills, pwd_bills')
       /\ IsPrefix(pwd_emd_refunds, pwd_emd_refunds')]_vars

\* C11 witness: a table holds two different rows, the second insert having kept
\* the first
C11_Witness == Len(pwd_bills) = 2 /\ pwd_bills[1] # pwd_bills[2]

\* the submission of this step ran a calculator of the advanced application to
\* its result
CalculationCompleted ==
    runs' # runs /\ out'.kind \in {"emd", "delay", "bill", "deductions", "security"}

\* C12: every completed calculation of the EMD refund, delay, bill, deductions
\* and security refund calculators adds exactly one row to the record store.
C12_OneRowPerCalculation ==
    [][CalculationCompleted => StoreRows' = StoreRows + 1]_vars

\* C13: a submission of a valid EMD refund, delay or bill form delivers the
\* computed result whether the INSERT executes or raises.
C13_ResultShownWhenInsertFails ==
    [][(/\ runs' # runs
        /\ form.tool \in {"emd", "delay", "bill"}
        /\ ~FormRejected) => out'.kind = form.tool]_vars

\* C14: between the operations no connection that a calculator opened is left
\* open, whether its INSERT executed or raised.
C14_ConnectionsReleased == open_conns = 0

(***************************************************************************)
(* Claims about the delay analysis (SpecCalc).                             *)
(***************************************************************************)
\* C15: the impact level shown is High when delay_days > 90, Medium when
\* 30 < delay_days <= 90 and Low otherwise, zero and negative delays included;
\* 30 days is Low and 90 days is Medium.
C15_ImpactLevel ==
    out.kind = "delay" =>
        LET d == out.delay_days
        IN  /\ d = DateDiffDays(form.actual_date, form.original_date)
            /\ d > 90 => out.impact_rating = "High"
            /\ (30 < d /\ d <= 90) => out.impact_rating = "Medium"
            /\ d <= 30 => out.impact_rating = "Low"
            /\ d = 30 => out.impact_rating = "Low"
            /\ d = 90 => out.impact_rating = "Medium"

\* C15 witness: a delay of exactly 90 days has been analysed
C15_Witness ==
    out.kind = "delay" /\ out.delay_days = 90 /\ out.impact_rating = "Medium"

\* a delay form has been analysed: the message is on screen, above the analysis
\* or above the traceback of a failed INSERT
DelayAnalysed ==
    out.kind = "delay" \/ (out.kind = "exception" /\ out.tool = "delay")

\* C16: a delay analysis shows "ahead of schedule by |delay_days| days" when
\* delay_days < 0, "on time" when delay_days = 0 and "delayed by delay_days days"
\* when delay_days > 0, and nothing else; the penalty of the first two is 0.
C16_ThreeOutcomes ==
    DelayAnalysed =>
        LET d == DateDiffDays(form.actual_date, form.original_date)
        IN  /\ d < 0 => out.message = [text |-> "ahead of schedule", days |-> 0 - d]
            /\ d = 0 => out.message = [text |-> "on time", days |-> 0]
            /\ d > 0 => out.message = [text |-> "delayed", days |-> d]
            /\ (out.kind = "delay" /\ d <= 0) => out.penalty_amount = 0

\* C16 witness: an early completion has been analysed with a penalty rate set
C16_Witness ==
    /\ out.kind = "delay" /\ out.delay_days < 0 /\ form.penalty_rate > 0
    /\ out.message.text = "ahead of schedule"

(***************************************************************************)
(* Claims about two delay analyses in a row (SpecDelay).                   *)
(***************************************************************************)
\* the row stored by the latest analysis
LastDelay(table) == table[Len(table)]

\* this step analyses the dates of the analysis on screen, swapped
SwappedAnalysis ==
    /\ runs' # runs
    /\ out.kind = "delay" /\ out'.kind = "delay"
    /\ LastDelay(delays).original_completion_date = form.actual_date
    /\ LastDelay(delays).actual_completion_date = form.original_date

\* C17: analysing (planned = a, actual = b) and then (planned = b, actual = a)
\* gives delay_days that are negations of each other; when they are not 0 one
\* analysis reports "delayed" and the other "ahead of schedule", both with the
\* same number of days.
C17_Antisymmetric ==
    [][SwappedAnalysis =>
          /\ out'.delay_days = 0 - out.delay_days
          /\ out.delay_days # 0 =>
                 /\ {out.message.text, out'.message.text}
                        = {"delayed", "ahead of schedule"}
                 /\ out'.message.days = out.message.days]_vars

\* C17 witness: a delay and then the same two dates swapped have been analysed
C17_Witness ==
    /\ Len(delays) = 2 /\ out.kind = "delay"
    /\ delays[1].original_completion_date = delays[2].actual_completion_date
    /\ delays[1].actual_completion_date = delays[2].original_completion_date
    /\ delays[1].delay_days = 91 /\ out.message.text = "ahead of schedule"

(***************************************************************************)
(* Claims about the deductions of the advanced application (SpecCalc).     *)
(***************************************************************************)
\* C18: the net amount shown is the gross with additions minus the total
\* deductions, below zero when the deductions exceed the gross, in the
\* deductions table and in the bill sheet.
C18_NetNeverClamped ==
    /\ out.kind = "deductions" =>
           LET t == out.table
           IN  /\ t.base_amount = Rupees(form.base_amount)
               /\ t.net_amount = t.base_amount - t.total_deductions
               /\ t.total_deductions > t.base_amount => t.net_amount < 0
    /\ out.kind = "bill" =>
           LET c == out.sheet
           IN  /\ c.gross_with_gst = Rupees(form.current_claim) + c.gst_amount
               /\ c.net_payment = c.gross_with_gst - c.total_deductions
               /\ c.total_deductions > c.gross_with_gst => c.net_payment < 0

\* C18 witness: a deductions table whose deductions exceed the base amount
C18_Witness ==
    /\ out.kind = "deductions"
    /\ out.table.total_deductions > out.table.base_amount
    /\ out.table.net_amount < 0

\* every rate and every fixed amount of the deductions form is 0
NoDeductionsEntered ==
    /\ form.tds_rate = 0 /\ form.gst_rate = 0 /\ form.labour_cess_rate = 0
    /\ form.performance_rate = 0 /\ form.retention_rate = 0
    /\ form.security_amount = 0 /\ form.mobilization_amount = 0
    /\ form.material_amount = 0 /\ form.penalty_amount = 0 /\ form.other_amount = 0

\* every deduction of the bill form is 0
NoBillDeductionsEntered ==
    /\ form.tds_rate = 0 /\ form.retention_rate = 0 /\ form.labour_cess = 0
    /\ form.other_deductions = 0

\* C19: with every rate 0 and every fixed amount 0 the total of the deductions
\* is 0 and the net amount is the base amount, in the deductions table and in
\* the bill sheet (where the base is the claim, or the claim with GST when a GST
\* rate adds to it).
C19_IdentityLaw ==
    /\ (out.kind = "deductions" /\ NoDeductionsEntered) =>
           /\ out.table.total_deductions = 0
           /\ out.table.net_amount = Rupees(form.base_amount)
    /\ (out.kind = "bill" /\ NoBillDeductionsEntered) =>
           /\ out.sheet.total_deductions = 0
           /\ out.sheet.net_payment = out.sheet.gross_with_gst
           /\ form.gst_rate = 0 => out.sheet.net_payment = Rupees(form.current_claim)

\* C19 witness: a deductions table computed with nothing to deduct
C19_Witness ==
    /\ out.kind = "deductions" /\ NoDeductionsEntered
    /\ out.table.net_amount = Rupees(100000)

(***************************************************************************)
(* Claims about the file names of a bulk receipt run (SpecNames).          *)
(***************************************************************************)
\* C20: any two receipts of one run have different file names, whatever their
\* payee names, and the archive holds one entry per receipt, no two entries
\* under one name.
C20_FilenamesDistinct ==
    /\ \A i \in 1..Len(records) : \A j \in 1..Len(records) :
           i # j => records[i].filename # records[j].filename
    /\ pc = "done" =>
           /\ Len(zip) = Len(records)
           /\ Cardinality({zip[k] : k \in 1..Len(zip)}) = Len(records)

\* C20 witness: three receipts are in the archive, two for one payee name and
\* two for names that differ but sanitize to one string
C20_Witness ==
    /\ pc = "done" /\ Len(records) = 3
    /\ records[1].payee = records[2].payee
    /\ records[2].payee # records[3].payee
    /\ sanitize_filename(records[2].payee) = sanitize_filename(records[3].payee)

(***************************************************************************)
(* Further claims about the bulk receipt generator (SpecBulk).             *)
(***************************************************************************)
\* C21: records, invalid_rows and the archive each list their rows in the order
\* of the input table.
C21_InputOrderKept ==
    /\ \A i \in 1..Len(records) : \A j \in 1..Len(records) :
           i < j => records[i].idx < records[j].idx
    /\ \A i \in 1..Len(invalid_rows) : \A j \in 1..Len(invalid_rows) :
           i < j => invalid_rows[i].row < invalid_rows[j].row
    /\ pc = "done" => zip = [k \in 1..Len(records) |-> records[k].filename]

\* C21 witness: of three rows the first and the last are in the archive and the
\* one between them is invalid
C21_Witness ==
    /\ pc = "done" /\ Len(df) = 3 /\ Len(zip) = 2
    /\ records[1].idx = 0 /\ records[2].idx = 2
    /\ invalid_rows[1].row = 3

\* the text of the reason holds the name of one of the three fields
NamesField(reason) ==
    \E field \in {"payee", "work", "amount"} : Occurrences(reason.text, field) >= 1

\* C22: every reason given for a row with a missing or unparseable value names
\* the field that failed, and the reason of an amount that does not parse holds
\* the raw value of the cell.
C22_ReasonNamesField ==
    \A k \in 1..Len(invalid_rows) :
        LET entry == invalid_rows[k]
        IN  entry.reason.kind # "exception" =>
                /\ NamesField(entry.reason)
                /\ entry.reason.kind = "amount" =>
                       entry.reason.raw = df[entry.row - 1].amount

(***************************************************************************)
(* Claims about the rates of the deduction flows (SpecRates).              *)
(***************************************************************************)
\* the rates of the form on screen are within the maxima of their domains
RatesInDomain ==
    /\ form.gst_rate >= 0 /\ form.gst_rate <= 28
    /\ form.tds_rate >= 0 /\ form.tds_rate <= 10
    /\ form.retention_rate >= 0 /\ form.retention_rate <= 10
    /\ IF form.tool = "bill"
       THEN form.labour_cess >= 0 /\ form.labour_cess <= 2
       ELSE form.labour_cess_rate >= 0 /\ form.labour_cess_rate <= 2

\* C23: every submission that computes a bill sheet or a deductions table
\* computes it from a GST rate in [0, 28], a TDS rate in [0, 10], a retention
\* rate in [0, 10] and a labour cess rate in [0, 2].
C23_RatesWithinMaxima ==
    [][(runs' # runs /\ out'.kind \in {"bill", "deductions"}) => RatesInDomain]_vars

\* C23 witness: a bill sheet was computed with every rate at its maximum
C23_Witness ==
    /\ out.kind = "bill" /\ form.gst_rate = 28 /\ form.tds_rate = 10
    /\ form.retention_rate = 10 /\ form.labour_cess = 2
    /\ out.sheet.gst_amount = Percent(Rupees(100000), 28)

(***************************************************************************)
(* Claims about the two TDS bases (SpecCalc).                              *)
(***************************************************************************)
\* the deductions form holding the base amount and the rates of a bill form
SameInputs(f) ==
    [tool |-> "deductions", base_amount |-> f.current_claim,
     tds_rate |-> f.tds_rate, gst_rate |-> f.gst_rate,
     labour_cess_rate |-> f.labour_cess, performance_rate |-> 0,
     retention_rate |-> f.retention_rate, security_amount |-> 0,
     mobilization_amount |-> 0, material_amount |-> 0, penalty_amount |-> 0,
     other_amount |-> f.other_deductions]

\* C24: for a base B, a GST rate g and a TDS rate t the bill sheet takes TDS of
\* (B + B*g/100)*t/100 and the deductions table takes TDS of B*t/100, and the
\* two amounts differ exactly when g > 0 and t > 0.
C24_TdsBasesDiffer ==
    out.kind = "bill" =>
        LET B == Rupees(form.current_claim)
            table == DeductionsCalculation(SameInputs(form))
        IN  /\ out.sheet.tds_amount
                   = Percent(B + Percent(B, form.gst_rate), form.tds_rate)
            /\ table.tds_calc = Percent(B, form.tds_rate)
            /\ (out.sheet.tds_amount # table.tds_calc)
                   <=> (form.gst_rate > 0 /\ form.tds_rate > 0)

\* C24 witness: a bill of 100000 at 18% GST and 2% TDS has TDS of 2360 where
\* the deductions table has 2000
C24_Witness ==
    /\ out.kind = "bill" /\ form.current_claim = 100000
    /\ form.gst_rate = 18 /\ form.tds_rate = 2
    /\ out.sheet.tds_amount = Rupees(2360)
    /\ DeductionsCalculation(SameInputs(form)).tds_calc = Rupees(2000)

(***************************************************************************)
(* Claims about the column defaults of the bulk receipt tool (SpecMap).    *)
(***************************************************************************)
\* the first of the patterns that some column holds, 0 when none does
BestPattern(patterns) ==
    IF \E k \in 1..Len(patterns), j \in 1..Len(cols) :
           Contains(patterns[k], Lower(cols[j]))
    THEN CHOOSE k \in 1..Len(patterns) :
             /\ \E j \in 1..Len(cols) : Contains(patterns[k], Lower(cols[j]))
             /\ \A m \in 1..(k - 1) : \A j \in 1..Len(cols) :
                    ~Contains(patterns[m], Lower(cols[j]))
    ELSE 0

\* the default of a role follows the priority of the role's keywords: it holds
\* the first keyword of the list that any column holds, and with no keyword
\* in any column it is the column at the role's position, or the last one
DefaultByPriority(default, patterns, n) ==
    /\ \E j \in 1..Len(cols) : cols[j] = default
    /\ IF BestPattern(patterns) = 0
       THEN default = cols[(IF n < Len(cols) - 1 THEN n ELSE Len(cols) - 1) + 1]
       ELSE Contains(patterns[BestPattern(patterns)], Lower(default))

\* C25: each of payee, amount and work defaults to a column whose lower-cased
\* name holds a keyword of the role, the keywords taken in the order of the
\* role's priority list (payee, then contractor, then name), and when no column
\* holds a keyword the default is a positional column of the table.
C25_DefaultsByPriority ==
    mapping.shown =>
        /\ DefaultByPriority(mapping.payee_col, PayeePatterns, 0)
        /\ DefaultByPriority(mapping.amount_col, AmountPatterns, 1)
        /\ DefaultByPriority(mapping.work_col, WorkPatterns, 2)

(***************************************************************************)
(* Claims about the routing of the simplified application (SpecRoute).     *)
(***************************************************************************)
\* C26: the script run in which a button of the dashboard stores an override
\* renders the dashboard; a run that finds an override routes to the tool of
\* the override, whatever the sidebar says, and removes the override; a run
\* that finds none routes by the sidebar.  An override so routes one run only.
C26_OverrideAppliedOnce ==
    [][pages' # pages =>
          LET run == pages'[Len(pages')]
          IN  /\ run.selected = selected_tool'
              /\ selected_tool_override' # NoOverride => run.routed = Dashboard
              /\ selected_tool_override # NoOverride =>
                     /\ run.routed = selected_tool_override
                     /\ selected_tool_override' = NoOverride
              /\ selected_tool_override = NoOverride =>
                     run.routed = run.selected]_vars

\* C26 witness: the dashboard was shown, its button of Bill Note was clicked, the
\* next run showed Bill Note although the sidebar said Delay Calc, and the run
\* after it showed Delay Calc
C26_Witness ==
    /\ Len(pages) = 4 /\ selected_tool_override = NoOverride
    /\ pages[1] = [selected |-> Dashboard, routed |-> Dashboard]
    /\ pages[2] = [selected |-> Dashboard, routed |-> Dashboard]
    /\ pages[3] = [selected |-> "Delay Calc", routed |-> "Bill Note"]
    /\ pages[4] = [selected |-> "Delay Calc", routed |-> "Delay Calc"]

(***************************************************************************)
(* Claims about the rows of professional_bills (SpecCalc).                 *)
(***************************************************************************)
\* C27: every row of professional_bills has net_payment = current_claim +
\* gst_amount - deductions and bill_amount = current_claim, and the deductions,
\* net_payment, gst_amount and tds_amount of the row a submission stores are the
\* amounts of the sheet that submission renders.
C27_BillRowMatchesSheet ==
    /\ \A k \in 1..Len(bills) :
           /\ bills[k].net_payment
                  = bills[k].current_claim + bills[k].gst_amount - bills[k].deductions
           /\ bills[k].bill_amount = bills[k].current_claim
    /\ out.kind = "bill" =>
           LET row == bills[Len(bills)]
           IN  /\ Len(bills) >= 1
               /\ row.deductions = out.sheet.total_deductions
               /\ row.net_payment = out.sheet.net_payment
               /\ row.gst_amount = out.sheet.gst_amount
               /\ row.tds_amount = out.sheet.tds_amount

\* C27 witness: the bill of 100000 at 18% GST, 2% TDS, 5% retention and 1% cess
\* is stored with GST 18000, deductions 8360 and net payment 109640
C27_Witness ==
    /\ out.kind = "bill" /\ Len(bills) = 1
    /\ bills[1].current_claim = Rupees(100000)
    /\ bills[1].gst_amount = Rupees(18000)
    /\ bills[1].deductions = Rupees(8360)
    /\ bills[1].net_payment = Rupees(109640)
    /\ out.sheet.net_payment = Rupees(109640)

(***************************************************************************)
(* Claims about the advanced security refund (SpecCalc).                   *)
(***************************************************************************)
\* C28: the interest of a processed security refund is never negative: it is 0
\* unless interest is applicable and the refundable amount is > 0, and then it
\* is refundable * rate * days / 36500 with days from the completion date to
\* today; so the final refund is never below the refundable amount, whatever
\* the completion date.
C28_InterestNeverNegative ==
    (out.kind = "security" /\ ~SecurityFormInvalid(form)) =>
        LET refundable ==
                form.security_amount - form.pending_claims - form.damage_recovery
        IN  /\ out.refund.refundable_amount = refundable
            /\ out.refund.interest_amount >= 0
            /\ ~(form.interest_applicable /\ refundable > 0) =>
                   out.refund.interest_amount = 0
            /\ out.refund.final_refund >= refundable * (365 * 100)

(***************************************************************************)
(* Claims about the writes of the simplified application (Spec).           *)
(***************************************************************************)
\* the row an INSERT of the simplified application makes of the form
SimpleRow == [payee_name |-> form.payee, amount |-> form.amount, work |-> form.work]

\* the form on screen has a payee, a work and an amount that is not zero
FilledIn == form.payee # "" /\ form.work # "" /\ form.amount # 0

\* C29: of the tools of the simplified application only Bill Note and EMD
\* Refund write to the database: a submission of either inserts one row, the
\* row of the form, exactly when the payee and the work are not empty and the
\* amount is not zero (and the INSERT does not raise); a submission of any
\* other tool, Delay Calc among them, leaves every table unchanged, and the
\* count of project_delays that the dashboard shows never changes.
C29_OnlyTwoToolsWrite ==
    [][/\ DashboardMetrics.Delays' = DashboardMetrics.Delays
       /\ (runs' # runs /\ form.tool \in SimpleTools) =>
              LET inserts == FilledIn /\ out'.kind # "exception"
              IN  /\ pwd_bills' =
                         IF form.tool = "bill_note" /\ inserts
                         THEN Append(pwd_bills, SimpleRow)
                         ELSE pwd_bills
                  /\ pwd_emd_refunds' =
                         IF form.tool = "emd_refund" /\ inserts
                         THEN Append(pwd_emd_refunds, SimpleRow)
                         ELSE pwd_emd_refunds
                  /\ pwd_project_delays' = pwd_project_delays
                  /\ (FilledIn /\ out'.kind = "exception") =>
                         form.tool \in WritingTools]_vars

\* C29 witness: a bill note of -1000 was saved and then the delay calculator
\* ran on a filled-in form, the tables as they were
C29_Witness ==
    /\ runs = 2 /\ out.kind = "delay_calc" /\ form.tool = "delay_calc"
    /\ Len(pwd_bills) = 1 /\ pwd_bills[1].amount = 0 - 1000
    /\ pwd_emd_refunds = <<>>
    /\ DashboardMetrics = [Bills |-> 1, EMD |-> 0, Delays |-> 0]

(***************************************************************************)
(* Claims about the words of a negative net amount (SpecCalc).             *)
(***************************************************************************)
\* a net amount in units of 1/Scale rupee, cut to whole rupees towards zero
TruncatedRupees(units) ==
    IF units < 0 THEN -((-units) \div Scale) ELSE units \div Scale

\* the net amount of the bill sheet or deductions table on screen
NetOnScreen ==
    IF out.kind = "bill" THEN out.sheet.net_payment ELSE out.table.net_amount

\* C30: when the net amount of a bill sheet or of a deductions table is
\* negative, its amount in words has no paise part: it is the words of the
\* amount cut to whole rupees towards zero, followed by "Rupees Only".
C30_NegativeNetHasNoPaise ==
    (out.kind \in {"bill", "deductions"} /\ NetOnScreen < 0) =>
        LET rupees == TruncatedRupees(NetOnScreen)
        IN  /\ out.amount_in_words
                   = (IF rupees = 0 THEN "Zero" ELSE num2words(rupees))
                     \o " Rupees Only"
            /\ Occurrences(out.amount_in_words, "Paise") = 0

\* C30 witness: a deductions table on a base of 250 with 60000 of other
\* deductions has a net amount of -59802.50, put into words as minus 59802
C30_Witness ==
    /\ out.kind = "deductions"
    /\ out.table.net_amount = 0 - (Rupees(59802) + Scale \div 2)
    /\ out.amount_in_words
           = "Minus Fifty-Nine Thousand, Eight Hundred And Two Rupees Only"

====
